---- MODULE Spec2Model ----
(***************************************************************************)
(* A model of src/src/capi.rs: the safe wrapper around the native Arcade   *)
(* Learning Environment handle.  The wrapper's own code (ALE, Game,        *)
(* AleState, AleSystemState, their Drop / Encodable / Decodable impls) is  *)
(* translated statement by statement; the extern "C" functions it calls    *)
(* are modelled as the black-box engine the design document describes.     *)
(***************************************************************************)
EXTENDS Integers, Sequences, FiniteSets, TLC

(***************************************************************************)
(* Bounds of the model                                                     *)
(***************************************************************************)
\* native engine handles ALE_new may hand out during one run
MaxHandles == 3
\* native snapshot handles the engine may hand out during one run
MaxSnaps == 2
\* act() is not explored beyond this frame number
MaxFrame == 3
\* largest capacity of a caller supplied Vec<u8>
MaxCap == 7
\* threads racing on ALE::new / drop in SpecMT
NThreads == 2

(***************************************************************************)
(* Small input domains                                                     *)
(***************************************************************************)
\* contents of ROM files
Roms == {"romA", "romB"}
\* file names a caller passes; NulPath holds an interior NUL byte
Paths == {"pong.bin", "breakout.bin"}
NulPath == "pong<NUL>.bin"
Absent == "absent"
\* Action(pub i32): the wrapped integers explored
Actions == {0, 1}

VARIABLES
  INSTANCE_EXISTS,  \* static mut INSTANCE_EXISTS: AtomicBool
  engines,          \* native side: one record per handle ALE_new returned
  sessions,         \* the ALE / Game values the program owns
  pending,          \* statements of a running Drop for ALE not yet executed
  snaps,            \* native side: one record per snapshot handle created
  states,           \* the AleState / AleSystemState values the program owns
  fs,               \* the file system: path -> ROM bytes or Absent
  saved,            \* encoded bytes the program keeps (Game and snapshots)
  buf,              \* a caller supplied Vec<u8>: length, capacity, fill record
  thr,              \* SpecMT: per thread position in new / drop
  last              \* history: the last operation and how it ended

vars == <<INSTANCE_EXISTS, engines, sessions, pending, snaps, states, fs,
          saved, buf, thr, last>>

(***************************************************************************)
(* The native engine (extern "C" block), as the design document describes  *)
(* it: a handle is created, loaded, stepped, snapshotted and deleted.      *)
(***************************************************************************)
NoRom == "none"

RAMSize(rom) == IF rom = "romA" THEN 2 ELSE IF rom = "romB" THEN 3 ELSE 0
ScreenWidth(rom) == IF rom = NoRom THEN 0 ELSE 2
ScreenHeight(rom) == IF rom = "romA" THEN 1 ELSE IF rom = "romB" THEN 2 ELSE 0
InitLives(rom) == IF rom = "romA" THEN 1 ELSE IF rom = "romB" THEN 2 ELSE 0

Zeros(n) == [i \in 1..n |-> 0]

\* the emulator state of a handle with ROM bytes `rom` loaded, at power-on
InitialEmu(rom) ==
  [rom |-> rom, frame |-> 0, lives |-> InitLives(rom),
   ram |-> Zeros(RAMSize(rom)),
   screen |-> Zeros(ScreenWidth(rom) * ScreenHeight(rom))]

NoGame == InitialEmu(NoRom)

\* ALE_new(): a fresh handle, no ROM loaded
ALE_new(eng) == Append(eng, [status |-> "live", emu |-> NoGame, loads |-> 0,
                             path |-> ""])

\* ALE_del(i): the handle is released
ALE_del(eng, p) == [eng EXCEPT ![p] = [status |-> "deleted", emu |-> NoGame,
                                       loads |-> 0, path |-> ""]]

Min(a, b) == IF a < b THEN a ELSE b

\* loadROM(i, file_name): the bytes of the file are loaded and the machine is
\* powered on; a missing file loads nothing.  loads counts the calls (0, 1, many).
loadROM(eng, p, path, files) ==
  [eng EXCEPT ![p].emu = IF files[path] = Absent THEN NoGame
                         ELSE InitialEmu(files[path]),
              ![p].loads = Min(@ + 1, 2),
              ![p].path = path]

LiveHandles == {h \in DOMAIN engines : engines[h].status = "live"}

(***************************************************************************)
(* ALE and Game                                                            *)
(***************************************************************************)
AleValue(p) == [kind |-> "ALE", p |-> p, rom_path |-> ""]

\* a faulty variant of Game_new: the path is not recorded
Game_new_no_path(ale, path) == [kind |-> "Game", p |-> ale.p, rom_path |-> ""]
\* Game::new(ale, path)
Game_new(ale, path) == [kind |-> "Game", p |-> ale.p, rom_path |-> path]

\* AtomicBool::swap(val, SeqCst): the old value is returned, val is stored
swap(flag, val) == [old |-> flag, new |-> val]

\* a faulty variant of AssertFails: the assert! is missing
AssertNeverFails(old) == FALSE
\* assert!(!INSTANCE_EXISTS.swap(true, SeqCst), ALE_ERROR) panics iff the
\* swap returned true
AssertFails(old) == old

\* history: was a handle or a session live when ALE::new was called
Busy == IF LiveHandles # {} \/ sessions # {} \/ pending # <<>>
        THEN "busy" ELSE "free"

Last(op, res, attempt, info) ==
  [op |-> op, res |-> res, attempt |-> attempt, info |-> info]

\* a faulty variant of DropBody: the guard is never cleared
DropBodyNoStore(p) == << <<"ALE_del", p>> >>
\* a faulty variant of DropBody: the guard is cleared before the handle is released
DropBodySwapped(p) == << <<"store", p>>, <<"ALE_del", p>> >>
\* impl Drop for ALE: ALE_del(self.p); INSTANCE_EXISTS.store(false, Relaxed)
DropBody(p) == << <<"ALE_del", p>>, <<"store", p>> >>

\* one statement of the Drop body, on the guard and the native handles
Exec(stmt, flag, eng) ==
  IF stmt[1] = "ALE_del"
  THEN [flag |-> flag, eng |-> ALE_del(eng, stmt[2])]
  ELSE [flag |-> FALSE, eng |-> eng]

\* the value `ale` goes out of scope on top of guard `flag` and handles `eng`:
\* the first statement of its Drop runs, the rest is left in pending
StartDrop(ale, flag, eng) ==
  LET body == DropBody(ale.p)
      r == Exec(Head(body), flag, eng)
  IN  /\ INSTANCE_EXISTS' = r.flag
      /\ engines' = r.eng
      /\ pending' = Tail(body)

Idle == pending = <<>>

\* history kept with a snapshot value: an operation other than act() was
\* applied to the Game
Untouch(sts) == {[w EXCEPT !.acts_only = FALSE] : w \in sts}

\* a faulty variant of new: a rejected call clears the guard on its way out
new_reject_clears ==
  /\ Idle
  /\ LET sw == swap(INSTANCE_EXISTS, TRUE)
     IN  IF AssertFails(sw.old)
         THEN /\ INSTANCE_EXISTS' = FALSE
              /\ UNCHANGED <<engines, sessions>>
              /\ last' = Last("new", "panic", Busy, 0)
         ELSE /\ Len(engines) < MaxHandles
              /\ INSTANCE_EXISTS' = sw.new
              /\ engines' = ALE_new(engines)
              /\ sessions' = sessions \cup {AleValue(Len(engines) + 1)}
              /\ last' = Last("new", "ok", Busy, 0)
  /\ UNCHANGED <<pending, snaps, states, fs, saved, buf, thr>>
\* ALE::new()
new ==
  /\ Idle
  /\ LET sw == swap(INSTANCE_EXISTS, TRUE)
     IN  /\ INSTANCE_EXISTS' = sw.new
         /\ IF AssertFails(sw.old)
            THEN /\ UNCHANGED <<engines, sessions>>
                 /\ last' = Last("new", "panic", Busy, 0)
            ELSE /\ Len(engines) < MaxHandles
                 /\ engines' = ALE_new(engines)
                 /\ sessions' = sessions \cup {AleValue(Len(engines) + 1)}
                 /\ last' = Last("new", "ok", Busy, 0)
  /\ UNCHANGED <<pending, snaps, states, fs, saved, buf, thr>>

\* a faulty variant of load_rom: the consumed ALE is dropped although the Game keeps
\* its pointer
load_rom_dropping(ale, file_name) ==
  /\ Idle
  /\ ale \in sessions /\ ale.kind = "ALE"
  /\ file_name \in Paths
  /\ sessions' = (sessions \ {ale}) \cup {Game_new(ale, file_name)}
  /\ StartDrop(ale, INSTANCE_EXISTS, loadROM(engines, ale.p, file_name, fs))
  /\ last' = Last("load_rom", "ok", "none", 0)
  /\ states' = Untouch(states)
  /\ UNCHANGED <<snaps, fs, saved, buf, thr>>
\* ALE::load_rom(self, file_name): CString::new(file_name).unwrap() panics on
\* an interior NUL and unwinding drops self; otherwise loadROM and Game::new
load_rom(ale, file_name) ==
  /\ Idle
  /\ ale \in sessions /\ ale.kind = "ALE"
  /\ IF file_name = NulPath
     THEN /\ sessions' = sessions \ {ale}
          /\ StartDrop(ale, INSTANCE_EXISTS, engines)
          /\ last' = Last("load_rom", "panic", "none", 0)
     ELSE /\ engines' = loadROM(engines, ale.p, file_name, fs)
          /\ sessions' = (sessions \ {ale}) \cup {Game_new(ale, file_name)}
          /\ last' = Last("load_rom", "ok", "none", 0)
          /\ UNCHANGED <<INSTANCE_EXISTS, pending>>
  /\ states' = Untouch(states)
  /\ UNCHANGED <<snaps, fs, saved, buf, thr>>

\* Game::change_game(self, file_name): self.ale.load_rom(file_name)
change_game(game, file_name) ==
  /\ Idle
  /\ game \in sessions /\ game.kind = "Game"
  /\ LET ale == AleValue(game.p)
     IN  IF file_name = NulPath
         THEN /\ sessions' = sessions \ {game}
              /\ StartDrop(ale, INSTANCE_EXISTS, engines)
              /\ last' = Last("change_game", "panic", "none", 0)
         ELSE /\ engines' = loadROM(engines, ale.p, file_name, fs)
              /\ sessions' = (sessions \ {game}) \cup {Game_new(ale, file_name)}
              /\ last' = Last("change_game", "ok", "none", 0)
              /\ UNCHANGED <<INSTANCE_EXISTS, pending>>
  /\ states' = Untouch(states)
  /\ UNCHANGED <<snaps, fs, saved, buf, thr>>

\* impl Into<ALE> for Game: self.ale
into(game) ==
  /\ Idle
  /\ game \in sessions /\ game.kind = "Game"
  /\ sessions' = (sessions \ {game}) \cup {AleValue(game.p)}
  /\ last' = Last("into", "ok", "none", 0)
  /\ UNCHANGED <<INSTANCE_EXISTS, engines, pending, snaps, states, fs, saved,
                 buf, thr>>

\* an ALE, or a Game (whose field ale is dropped), goes out of scope
drop(s) ==
  /\ Idle
  /\ s \in sessions
  /\ sessions' = sessions \ {s}
  /\ StartDrop(AleValue(s.p), INSTANCE_EXISTS, engines)
  /\ last' = Last("drop", s.kind, "none", engines[s.p].loads)
  /\ states' = Untouch(states)
  /\ UNCHANGED <<snaps, fs, saved, buf, thr>>

\* the next statement of the running Drop for ALE
drop_step ==
  /\ pending # <<>>
  /\ LET r == Exec(Head(pending), INSTANCE_EXISTS, engines)
     IN  /\ INSTANCE_EXISTS' = r.flag
         /\ engines' = r.eng
  /\ pending' = Tail(pending)
  /\ UNCHANGED <<sessions, snaps, states, fs, saved, buf, thr, last>>

(***************************************************************************)
(* The emulator behind a handle, and its snapshots (extern "C" block)      *)
(***************************************************************************)
Flip(b) == 255 - b

\* act(i, action): one emulation step.  The frame counter advances by one, the
\* machine writes RAM and the frame buffer, and every second frame costs a
\* life; the action decides the reward.  A handle with no ROM loaded has
\* nothing to step.
NativeAct(e, a) ==
  IF e.rom = NoRom THEN e
  ELSE [e EXCEPT !.frame = @ + 1,
                 !.lives = IF e.frame % 2 = 1 /\ @ > 0 THEN @ - 1 ELSE @,
                 !.ram = [@ EXCEPT ![1 + (e.frame % Len(@))] = Flip(@)],
                 !.screen = [@ EXCEPT ![1] = Flip(@)]]

\* the reward act returns
Reward(e, a) == IF e.rom = NoRom THEN 0 ELSE a

\* reset_game(i): counters and game state back to power-on, the ROM stays
reset_game(e) == InitialEmu(e.rom)

\* cloneState(i) / cloneSystemState(i): a new snapshot handle holding a copy of
\* the emulator state
cloneState(sn, e) == Append(sn, [status |-> "live", frees |-> 0, emu |-> e])

\* deleteState(s): the snapshot handle is freed
deleteState(sn, s) ==
  [sn EXCEPT ![s] = [status |-> "freed", frees |-> @.frees + 1, emu |-> NoGame]]

\* restoreState(i, s) / restoreSystemState(i, s): the emulator takes the
\* captured state; a snapshot of another cartridge is refused
restoreState(e, c) == IF c.rom = e.rom THEN c ELSE e

RomCode(rom) == IF rom = "romA" THEN 1 ELSE IF rom = "romB" THEN 2 ELSE 0
CodeRom(n) == IF n = 1 THEN "romA" ELSE IF n = 2 THEN "romB" ELSE NoRom

\* encodeState(s, buf): the snapshot as unsigned bytes; encodeStateLen(s) is
\* the length of this sequence
Serialize(c) ==
  <<RomCode(c.rom), c.frame, c.lives, Len(c.ram)>> \o c.ram \o c.screen

SubSeqFrom(q, n) == IF n > Len(q) THEN <<>> ELSE SubSeq(q, n, Len(q))

\* decodeState(state, len): the snapshot the bytes describe
Deserialize(bytes) ==
  [rom |-> CodeRom(bytes[1]), frame |-> bytes[2], lives |-> bytes[3],
   ram |-> IF bytes[4] = 0 THEN <<>> ELSE SubSeq(bytes, 5, 4 + bytes[4]),
   screen |-> SubSeqFrom(bytes, 5 + bytes[4])]

(***************************************************************************)
(* Game: stepping and observation                                          *)
(***************************************************************************)
Games == {s \in sessions : s.kind = "Game"}

\* getFrameNumber(i), lives(i), getRAM(i, buf), getScreen(i, buf)
getFrameNumber(e) == e.frame
getLives(e) == e.lives
getRAM(e) == e.ram
getScreen(e) == e.screen

\* Game::frame_number(&self), Game::lives(&self)
frame_number(game) == getFrameNumber(engines[game.p].emu)
lives(game) == getLives(engines[game.p].emu)

\* what a caller can observe of a Game: frame_number(), lives() and the bytes
\* ram() and screen() return
Obs(game) == [frame |-> frame_number(game), lives |-> lives(game),
              ram |-> getRAM(engines[game.p].emu),
              screen |-> getScreen(engines[game.p].emu)]

\* game_over(i): the episode has ended, here when no life is left
game_over(e) == IF e.rom # NoRom /\ e.lives = 0 THEN 1 ELSE 0

\* Game::is_over(&self)
is_over(game) == game_over(engines[game.p].emu) # 0

\* a faulty variant of act: nothing is stepped once the game is over
act_unless_over(game, action) ==
  /\ Idle
  /\ game \in Games
  /\ frame_number(game) < MaxFrame
  /\ IF is_over(game)
     THEN /\ UNCHANGED engines
          /\ last' = Last("act", "over", "none", 0)
     ELSE /\ engines' = [engines EXCEPT ![game.p].emu = NativeAct(@, action)]
          /\ last' = Last("act", "ok", "none", Reward(engines[game.p].emu, action))
  /\ UNCHANGED <<INSTANCE_EXISTS, sessions, pending, snaps, states, fs, saved,
                 buf, thr>>
\* Game::act(&mut self, action); the result kept in last tells whether
\* is_over() held when act was called, info is the reward returned
act(game, action) ==
  /\ Idle
  /\ game \in Games
  /\ frame_number(game) < MaxFrame
  /\ engines' = [engines EXCEPT ![game.p].emu = NativeAct(@, action)]
  /\ last' = Last("act", IF is_over(game) THEN "over" ELSE "ok", "none",
                   Reward(engines[game.p].emu, action))
  /\ UNCHANGED <<INSTANCE_EXISTS, sessions, pending, snaps, states, fs, saved,
                 buf, thr>>

\* Game::reset(&mut self)
reset(game) ==
  /\ Idle
  /\ game \in Games
  /\ engines' = [engines EXCEPT ![game.p].emu = reset_game(@)]
  /\ states' = Untouch(states)
  /\ last' = Last("reset", "ok", "none", 0)
  /\ UNCHANGED <<INSTANCE_EXISTS, sessions, pending, snaps, fs, saved, buf, thr>>

(***************************************************************************)
(* AleState and AleSystemState                                             *)
(***************************************************************************)
\* s is the field of the struct; frame0, acts_only and uses are history:
\* frame_number() of the Game when the snapshot was cloned from it, whether
\* that Game is still live and only act() was applied to it since, and
\* whether the snapshot was restored from before (0: never, 1: it was)
StateValue(kind, s, game) ==
  [kind |-> kind, s |-> s, frame0 |-> frame_number(game), acts_only |-> TRUE,
   uses |-> 0]

\* a snapshot value built from bytes has no Game behind it
DecodedValue(kind, s) ==
  [kind |-> kind, s |-> s, frame0 |-> 0, acts_only |-> FALSE, uses |-> 0]

\* history kept with the snapshot values when a Game is restored from st
Restored(sts, st) ==
  {IF w = st THEN [w EXCEPT !.uses = 1]
   ELSE [w EXCEPT !.acts_only = FALSE] : w \in sts}

\* history of a restore: is it the first one from this snapshot
Again(st) == IF st.uses > 0 THEN "again" ELSE "first"

\* Game::clone_state(&self)
clone_state(game) ==
  /\ Idle
  /\ game \in Games
  /\ Len(snaps) < MaxSnaps
  /\ snaps' = cloneState(snaps, engines[game.p].emu)
  /\ states' = states \cup
                 {StateValue("AleState", Len(snaps) + 1, game)}
  /\ last' = Last("clone_state", "ok", "none", game.p)
  /\ UNCHANGED <<INSTANCE_EXISTS, engines, sessions, pending, fs, saved, buf,
                 thr>>

\* Game::clone_system_state(&self)
clone_system_state(game) ==
  /\ Idle
  /\ game \in Games
  /\ Len(snaps) < MaxSnaps
  /\ snaps' = cloneState(snaps, engines[game.p].emu)
  /\ states' = states \cup
                 {StateValue("AleSystemState", Len(snaps) + 1, game)}
  /\ last' = Last("clone_system_state", "ok", "none", game.p)
  /\ UNCHANGED <<INSTANCE_EXISTS, engines, sessions, pending, fs, saved, buf,
                 thr>>

\* history of a restore: "fresh" when the snapshot was cloned from this Game by
\* the operation just before, and the frames rolled back when only act() (and
\* restores of this snapshot) came in between, else -1
Freshness(game, st, clone_op) ==
  IF last.op = clone_op /\ last.info = game.p /\ st.s = Len(snaps)
  THEN "fresh" ELSE "ok"
RolledBack(game, st) ==
  IF st.acts_only THEN frame_number(game) - st.frame0 ELSE -1

\* a faulty variant of restore_from_cloned_state: the snapshot is taken by value
\* and freed when the call returns
restore_consuming(game, st) ==
  /\ Idle
  /\ game \in Games
  /\ st \in states /\ st.kind = "AleState"
  /\ engines' = [engines EXCEPT ![game.p].emu = restoreState(@, snaps[st.s].emu)]
  /\ states' = Restored(states, st) \ {[st EXCEPT !.uses = 1]}
  /\ snaps' = deleteState(snaps, st.s)
  /\ last' = Last("restore_from_cloned_state", Freshness(game, st, "clone_state"),
                   Again(st), RolledBack(game, st))
  /\ UNCHANGED <<INSTANCE_EXISTS, sessions, pending, fs, saved, buf, thr>>
\* a faulty variant of restore_from_cloned_state: the game is reset instead
restore_by_reset(game, st) ==
  /\ Idle
  /\ game \in Games
  /\ st \in states /\ st.kind = "AleState"
  /\ engines' = [engines EXCEPT ![game.p].emu = reset_game(@)]
  /\ states' = Restored(states, st)
  /\ last' = Last("restore_from_cloned_state", Freshness(game, st, "clone_state"),
                   Again(st), RolledBack(game, st))
  /\ UNCHANGED <<INSTANCE_EXISTS, sessions, pending, snaps, fs, saved, buf, thr>>
\* Game::restore_from_cloned_state(&mut self, s: &AleState)
restore_from_cloned_state(game, st) ==
  /\ Idle
  /\ game \in Games
  /\ st \in states /\ st.kind = "AleState"
  /\ engines' = [engines EXCEPT ![game.p].emu = restoreState(@, snaps[st.s].emu)]
  /\ states' = Restored(states, st)
  /\ last' = Last("restore_from_cloned_state", Freshness(game, st, "clone_state"),
                   Again(st), RolledBack(game, st))
  /\ UNCHANGED <<INSTANCE_EXISTS, sessions, pending, snaps, fs, saved, buf, thr>>

\* a faulty variant of restore_from_cloned_system_state: the native call is missing
restore_system_noop(game, st) ==
  /\ Idle
  /\ game \in Games
  /\ st \in states /\ st.kind = "AleSystemState"
  /\ states' = Restored(states, st)
  /\ last' = Last("restore_from_cloned_system_state",
                   Freshness(game, st, "clone_system_state"),
                   Again(st), RolledBack(game, st))
  /\ UNCHANGED <<INSTANCE_EXISTS, engines, sessions, pending, snaps, fs, saved,
                 buf, thr>>
\* Game::restore_from_cloned_system_state(&mut self, s: &AleSystemState)
restore_from_cloned_system_state(game, st) ==
  /\ Idle
  /\ game \in Games
  /\ st \in states /\ st.kind = "AleSystemState"
  /\ engines' = [engines EXCEPT ![game.p].emu = restoreState(@, snaps[st.s].emu)]
  /\ states' = Restored(states, st)
  /\ last' = Last("restore_from_cloned_system_state",
                   Freshness(game, st, "clone_system_state"),
                   Again(st), RolledBack(game, st))
  /\ UNCHANGED <<INSTANCE_EXISTS, sessions, pending, snaps, fs, saved, buf, thr>>

\* a faulty variant of DropState: the destructor does not free the handle
DropStateLeak(sn, s) == sn
\* impl Drop for AleState / AleSystemState: deleteState(self.s)
DropState(sn, s) == deleteState(sn, s)

\* an AleState or AleSystemState goes out of scope
drop_state(st) ==
  /\ Idle
  /\ st \in states
  /\ states' = states \ {st}
  /\ snaps' = DropState(snaps, st.s)
  /\ last' = Last("drop_state", "ok", "none", 0)
  /\ UNCHANGED <<INSTANCE_EXISTS, engines, sessions, pending, fs, saved, buf,
                 thr>>

(***************************************************************************)
(* Serialization: snapshots and Games through the structured encoder       *)
(***************************************************************************)
\* a c_char written by the engine, read as the i8 of Vec<i8>
ToI8(b) == IF b > 127 THEN b - 256 ELSE b
\* the i8 of Vec<i8>, read by the engine as an unsigned byte
FromI8(c) == IF c < 0 THEN c + 256 ELSE c

\* fn encode_state(s): encodeStateLen, a Vec<i8> of that length, encodeState
encode_state(sn, s) ==
  LET bytes == Serialize(sn[s].emu)
      len == Len(bytes)
  IN  [i \in 1..len |-> ToI8(bytes[i])]

\* fn decode_state(serialized): decodeState(serialized.as_ptr(), len)
decode_state(sn, serialized) ==
  cloneState(sn, Deserialize([i \in 1..Len(serialized) |-> FromI8(serialized[i])]))

\* impl Encodable for AleState / AleSystemState
encode_snapshot(st) ==
  /\ Idle
  /\ st \in states
  /\ saved' = <<[tag |-> "state", bytes |-> encode_state(snaps, st.s)]>>
  /\ last' = Last("encode_snapshot", "ok", "none", 0)
  /\ UNCHANGED <<INSTANCE_EXISTS, engines, sessions, pending, snaps, states,
                 fs, buf, thr>>

\* impl Decodable for AleState / AleSystemState; `fails` is the structured
\* decoder returning Err for the byte vector
decode_snapshot(kind, fails) ==
  /\ Idle
  /\ saved # <<>> /\ saved[1].tag = "state"
  /\ IF fails
     THEN /\ UNCHANGED <<snaps, states>>
          /\ last' = Last("decode_snapshot", "err", "none", 0)
     ELSE /\ Len(snaps) < MaxSnaps
          /\ snaps' = decode_state(snaps, saved[1].bytes)
          /\ states' = states \cup {DecodedValue(kind, Len(snaps) + 1)}
          /\ last' = Last("decode_snapshot", "ok", "none", 0)
  /\ UNCHANGED <<INSTANCE_EXISTS, engines, sessions, pending, fs, saved, buf,
                 thr>>

\* impl Encodable for Game: the path, the bytes of the ROM file (File::open
\* panics when it is missing), then a temporary system snapshot, encoded and
\* dropped at the end of the statement.  obs and loaded are history: what the
\* Game showed, and the ROM bytes it was running.
encode(game) ==
  /\ Idle
  /\ game \in Games
  /\ IF fs[game.rom_path] = Absent
     THEN /\ UNCHANGED <<snaps, saved>>
          /\ last' = Last("encode", "panic", "none", 0)
     ELSE /\ Len(snaps) < MaxSnaps
          /\ LET sn1 == cloneState(snaps, engines[game.p].emu)
                 tmp == Len(snaps) + 1
             IN  /\ saved' = <<[tag |-> "game",
                                rom_path |-> game.rom_path,
                                rom |-> fs[game.rom_path],
                                bytes |-> encode_state(sn1, tmp),
                                loaded |-> engines[game.p].emu.rom,
                                obs |-> Obs(game)]>>
                 /\ snaps' = DropState(sn1, tmp)
          /\ last' = Last("encode", "ok", "none", 0)
  /\ UNCHANGED <<INSTANCE_EXISTS, engines, sessions, pending, states, fs, buf,
                 thr>>

\* what decode finds at the decoded path
FileStatus(blob) ==
  IF fs[blob.rom_path] = Absent THEN "created"
  ELSE IF fs[blob.rom_path] = blob.rom THEN "same" ELSE "stale"

\* a faulty variant of WriteRomIfMissing: the file is written whatever is there
WriteRomAlways(files, path, file_data) == [files EXCEPT ![path] = file_data]
\* if !path.exists() { File::create(path) ... file.write_all(file_data) }
WriteRomIfMissing(files, path, file_data) ==
  IF files[path] = Absent THEN [files EXCEPT ![path] = file_data] ELSE files

\* a faulty variant of TryFails: the Err of the structured decoder is dropped
TryNeverFails(fail, k) == FALSE
\* try!(..::decode(d)) on field k of a persisted Game returns early with the
\* decoder's Err; fail names the field the decoder fails on (0: none)
TryFails(fail, k) == fail = k

\* a faulty variant of UnwindGame: the session is forgotten, its Drop never runs
UnwindGameLeak(ale, flag, eng) ==
  /\ INSTANCE_EXISTS' = flag
  /\ engines' = eng
  /\ pending' = <<>>
\* the early return of try! lets the local `game` go out of scope
UnwindGame(ale, flag, eng) == StartDrop(ale, flag, eng)

\* a faulty variant of decode: the decoded system state is never restored
decode_no_restore(fail) ==
  /\ Idle
  /\ fail = 0
  /\ saved # <<>> /\ saved[1].tag = "game"
  /\ ~AssertFails(swap(INSTANCE_EXISTS, TRUE).old)
  /\ Len(engines) < MaxHandles /\ Len(snaps) < MaxSnaps
  /\ LET blob == saved[1]
         fs1 == IF fs[blob.rom_path] = Absent
                THEN [fs EXCEPT ![blob.rom_path] = blob.rom] ELSE fs
         p == Len(engines) + 1
         sn1 == decode_state(snaps, blob.bytes)
     IN  /\ fs' = fs1
         /\ INSTANCE_EXISTS' = TRUE
         /\ engines' = loadROM(ALE_new(engines), p, blob.rom_path, fs1)
         /\ sessions' = sessions \cup {Game_new(AleValue(p), blob.rom_path)}
         /\ snaps' = DropState(sn1, Len(snaps) + 1)
         /\ last' = Last("decode", "ok", Busy, FileStatus(blob))
  /\ UNCHANGED <<pending, states, saved, buf, thr>>
\* impl Decodable for Game.  fail = k > 0: the structured decoder returns Err
\* for field k (1 the path, 2 the ROM bytes, 3 the system state).
decode(fail) ==
  /\ Idle
  /\ saved # <<>> /\ saved[1].tag = "game"
  /\ LET blob == saved[1]
         fs1 == WriteRomIfMissing(fs, blob.rom_path, blob.rom)
         sw == swap(INSTANCE_EXISTS, TRUE)
         p == Len(engines) + 1
         \* ALE::new().load_rom(path)
         eng1 == loadROM(ALE_new(engines), p, blob.rom_path, fs1)
         game == Game_new(AleValue(p), blob.rom_path)
         sn1 == decode_state(snaps, blob.bytes)
         sys_state == Len(snaps) + 1
     IN  IF TryFails(fail, 1) \/ TryFails(fail, 2)
         THEN \* try!(String::decode(d)) / try!(Vec::<u8>::decode(d))
              /\ last' = Last("decode", "err", "none", fail)
              /\ UNCHANGED <<INSTANCE_EXISTS, engines, sessions, pending,
                             snaps, fs>>
         ELSE /\ fs' = fs1
              /\ INSTANCE_EXISTS' = sw.new
              /\ IF AssertFails(sw.old)
                 THEN /\ last' = Last("decode", "panic", Busy, FileStatus(blob))
                      /\ UNCHANGED <<engines, sessions, pending, snaps>>
                 ELSE /\ Len(engines) < MaxHandles
                      /\ IF TryFails(fail, 3)
                         THEN \* try!(AleSystemState::decode(d)): Err drops game
                              /\ UnwindGame(AleValue(p), sw.new, eng1)
                              /\ last' = Last("decode", "err", Busy, FileStatus(blob))
                              /\ UNCHANGED <<sessions, snaps>>
                         ELSE /\ Len(snaps) < MaxSnaps
                              /\ engines' = [eng1 EXCEPT ![p].emu =
                                               restoreState(@, sn1[sys_state].emu)]
                              /\ sessions' = sessions \cup {game}
                              \* sys_state goes out of scope
                              /\ snaps' = DropState(sn1, sys_state)
                              /\ last' = Last("decode", "ok", Busy, FileStatus(blob))
                              /\ UNCHANGED pending
  /\ UNCHANGED <<states, saved, buf, thr>>

(***************************************************************************)
(* The environment: ROM files are removed and replaced behind the program  *)
(***************************************************************************)
remove_file(path) ==
  /\ Idle
  /\ fs[path] # Absent
  /\ fs' = [fs EXCEPT ![path] = Absent]
  /\ UNCHANGED <<INSTANCE_EXISTS, engines, sessions, pending, snaps, states,
                 saved, buf, thr, last>>

write_file(path, rom) ==
  /\ Idle
  /\ fs[path] # rom
  /\ fs' = [fs EXCEPT ![path] = rom]
  /\ UNCHANGED <<INSTANCE_EXISTS, engines, sessions, pending, snaps, states,
                 saved, buf, thr, last>>

(***************************************************************************)
(* Caller supplied buffers: Vec<u8> as (length, capacity)                  *)
(***************************************************************************)
\* a faulty variant of with_capacity: nothing is allocated
with_no_capacity(n) == [len |-> 0, cap |-> 0]
\* Vec::with_capacity(n)
with_capacity(n) == [len |-> 0, cap |-> n]

\* Vec::reserve_exact(additional): room for `additional` elements past the
\* length; nothing happens when capacity - length already covers them
reserve_exact(v, additional) ==
  IF v.cap - v.len >= additional THEN v
  ELSE [v EXCEPT !.cap = v.len + additional]

\* Vec::set_len(n): unsafe, the length is set whatever the capacity
set_len(v, n) == [v EXCEPT !.len = n]

\* Game::screen_dimensions(): (getScreenWidth, getScreenHeight)
screen_dimensions(game) ==
  <<ScreenWidth(engines[game.p].emu.rom), ScreenHeight(engines[game.p].emu.rom)>>

\* Game::ram_size(): getRAMSize
ram_size(game) == RAMSize(engines[game.p].emu.rom)

\* a faulty variant of SizedBuf: the length is left as it was
SizedBufNoSetLen(v, size) ==
  IF v.cap < size THEN reserve_exact(v, size - v.cap) ELSE v
\* the body shared by screen_in_buf, screen_rgb_in_buf and ram_in_buf: grow
\* when the capacity is below `size`, then set the length to `size`
SizedBuf(v, size) ==
  LET cap == v.cap
      grown == IF cap < size THEN reserve_exact(v, size - cap) ELSE v
  IN  set_len(grown, size)

\* the caller hands in a Vec<u8> of its own
caller_buf(len, cap) ==
  /\ len <= cap
  /\ buf' = [len |-> len, cap |-> cap]
  /\ last' = Last("caller_buf", "ok", "none", 0)
  /\ UNCHANGED <<INSTANCE_EXISTS, engines, sessions, pending, snaps, states,
                 fs, saved, thr>>

\* Game::screen_in_buf(&self, buf); info is the number of bytes getScreen writes
screen_in_buf(game) ==
  /\ game \in Games
  /\ LET d == screen_dimensions(game)
     IN  /\ buf' = SizedBuf(buf, d[1] * d[2])
         /\ last' = Last("screen_in_buf", "ok", "none", d[1] * d[2])
  /\ UNCHANGED <<INSTANCE_EXISTS, engines, sessions, pending, snaps, states,
                 fs, saved, thr>>

\* Game::screen_rgb_in_buf(&self, buf); info is the number of bytes
\* getScreenRGB is given room for
screen_rgb_in_buf(game) ==
  /\ game \in Games
  /\ LET d == screen_dimensions(game)
     IN  /\ buf' = SizedBuf(buf, d[1] * d[2])
         /\ last' = Last("screen_rgb_in_buf", "ok", "none", d[1] * d[2])
  /\ UNCHANGED <<INSTANCE_EXISTS, engines, sessions, pending, snaps, states,
                 fs, saved, thr>>

\* Game::ram_in_buf(&self, buf); info is the number of bytes getRAM writes
ram_in_buf(game) ==
  /\ game \in Games
  /\ LET size == ram_size(game)
     IN  /\ buf' = SizedBuf(buf, size)
         /\ last' = Last("ram_in_buf", "ok", "none", size)
  /\ UNCHANGED <<INSTANCE_EXISTS, engines, sessions, pending, snaps, states,
                 fs, saved, thr>>

\* Game::screen(&self): a Vec of capacity width * height, then screen_in_buf
screen(game) ==
  /\ game \in Games
  /\ LET d == screen_dimensions(game)
     IN  /\ buf' = SizedBuf(with_capacity(d[1] * d[2]), d[1] * d[2])
         /\ last' = Last("screen", "ok", "none", d[1] * d[2])
  /\ UNCHANGED <<INSTANCE_EXISTS, engines, sessions, pending, snaps, states,
                 fs, saved, thr>>

\* Game::screen_rgb(&self)
screen_rgb(game) ==
  /\ game \in Games
  /\ LET d == screen_dimensions(game)
     IN  /\ buf' = SizedBuf(with_capacity(d[1] * d[2]), d[1] * d[2])
         /\ last' = Last("screen_rgb", "ok", "none", d[1] * d[2])
  /\ UNCHANGED <<INSTANCE_EXISTS, engines, sessions, pending, snaps, states,
                 fs, saved, thr>>

\* Game::ram(&self): a Vec of capacity ram_size, then ram_in_buf
ram(game) ==
  /\ game \in Games
  /\ LET size == ram_size(game)
     IN  /\ buf' = SizedBuf(with_capacity(size), size)
         /\ last' = Last("ram", "ok", "none", size)
  /\ UNCHANGED <<INSTANCE_EXISTS, engines, sessions, pending, snaps, states,
                 fs, saved, thr>>

(***************************************************************************)
(* Action sets                                                             *)
(***************************************************************************)
\* getLegalActionSet(i, actions) / getMinimalActionSet(i, actions): the
\* integers the engine writes, in its order; getLegalActionSize(i) /
\* getMinimalActionSize(i) report how many
getLegalActionSet(e) == IF e.rom = NoRom THEN <<>> ELSE <<0, 1>>
getLegalActionSize(e) == Len(getLegalActionSet(e))
getMinimalActionSet(e) ==
  IF e.rom = "romA" THEN <<0>> ELSE IF e.rom = "romB" THEN <<1, 0>> ELSE <<>>
getMinimalActionSize(e) == Len(getMinimalActionSet(e))

\* for action in buf.into_iter() { actions.push(Action(action)) }
RECURSIVE PushAll(_, _)
PushAll(src, actions) ==
  IF src = <<>> THEN actions
  ELSE PushAll(Tail(src), Append(actions, Head(src)))

\* the body shared by legal_action_set and minimal_action_set: a Vec<c_int>
\* of capacity `size`, filled by the engine with `written`, its length set to
\* `size`, then moved element by element into a Vec<Action>
ActionSet(size, written) ==
  LET buf0 == with_capacity(size)
      buf1 == set_len(buf0, size)
      filled == [i \in 1..buf1.len |-> written[i]]
  IN  [buf |-> buf1, actions |-> PushAll(filled, <<>>)]

\* Game::legal_action_set(&self); info is the Vec<Action> returned
legal_action_set(game) ==
  /\ Idle
  /\ game \in Games
  /\ LET e == engines[game.p].emu
         r == ActionSet(getLegalActionSize(e), getLegalActionSet(e))
     IN  /\ buf' = r.buf
         /\ last' = Last("legal_action_set", "ok", "none", r.actions)
  /\ UNCHANGED <<INSTANCE_EXISTS, engines, sessions, pending, snaps, states,
                 fs, saved, thr>>

\* Game::minimal_action_set(&self); info is the Vec<Action> returned
minimal_action_set(game) ==
  /\ Idle
  /\ game \in Games
  /\ LET e == engines[game.p].emu
         r == ActionSet(getMinimalActionSize(e), getMinimalActionSet(e))
     IN  /\ buf' = r.buf
         /\ last' = Last("minimal_action_set", "ok", "none", r.actions)
  /\ UNCHANGED <<INSTANCE_EXISTS, engines, sessions, pending, snaps, states,
                 fs, saved, thr>>

(***************************************************************************)
(* Several threads on ALE::new and Drop for ALE                            *)
(***************************************************************************)
\* the ordering of INSTANCE_EXISTS.store(false, ...) in Drop for ALE
StoreOrdering == "Relaxed"

\* A Relaxed store is ordered with nothing that precedes it in its thread:
\* other threads may see it before the effects of the ALE_del sequenced
\* before it.  A Release store would be seen only after them.
MayRun(todo, i) ==
  \/ i = 1
  \/ /\ todo[i][1] = "store"
     /\ StoreOrdering = "Relaxed"

Without(todo, i) == SubSeq(todo, 1, i - 1) \o SubSeq(todo, i + 1, Len(todo))

Racing == {t \in DOMAIN thr : thr[t].pc = "swapped"}

\* ALE::new(), its first statement: the swap and the assert
mt_swap(t) ==
  /\ thr[t].pc = "idle"
  /\ LET sw == swap(INSTANCE_EXISTS, TRUE)
     IN  /\ INSTANCE_EXISTS' = sw.new
         /\ IF AssertFails(sw.old)
            THEN /\ thr' = [thr EXCEPT ![t].pc = "panicked"]
                 /\ last' = Last("new", "panic", Busy, t)
            ELSE /\ Len(engines) + Cardinality(Racing) < MaxHandles
                 /\ thr' = [thr EXCEPT ![t].pc = "swapped"]
                 /\ last' = Last("new", "ok", Busy, t)
  /\ UNCHANGED <<engines, sessions, pending, snaps, states, fs, saved, buf>>

\* ALE::new(), its second statement: ALE { p: ALE_new() }
mt_ALE_new(t) ==
  /\ thr[t].pc = "swapped"
  /\ engines' = ALE_new(engines)
  /\ thr' = [thr EXCEPT ![t] = [pc |-> "holding", p |-> Len(engines) + 1,
                                todo |-> <<>>]]
  /\ UNCHANGED <<INSTANCE_EXISTS, sessions, pending, snaps, states, fs, saved,
                 buf, last>>

\* the thread lets its ALE go out of scope: Drop for ALE begins
mt_drop(t) ==
  /\ thr[t].pc = "holding"
  /\ thr' = [thr EXCEPT ![t].pc = "dropping", ![t].todo = DropBody(thr[t].p)]
  /\ last' = Last("drop", "ALE", "none", t)
  /\ UNCHANGED <<INSTANCE_EXISTS, engines, sessions, pending, snaps, states,
                 fs, saved, buf>>

\* one statement of the thread's Drop takes effect
mt_drop_step(t, i) ==
  /\ thr[t].pc = "dropping"
  /\ i \in DOMAIN thr[t].todo
  /\ MayRun(thr[t].todo, i)
  /\ LET r == Exec(thr[t].todo[i], INSTANCE_EXISTS, engines)
         rest == Without(thr[t].todo, i)
     IN  /\ INSTANCE_EXISTS' = r.flag
         /\ engines' = r.eng
         /\ thr' = [thr EXCEPT ![t] = IF rest = <<>>
                                      THEN [pc |-> "idle", p |-> 0, todo |-> <<>>]
                                      ELSE [@ EXCEPT !.todo = rest]]
  /\ UNCHANGED <<sessions, pending, snaps, states, fs, saved, buf, last>>

\* a thread whose ALE::new panicked has ended; another one takes its place
mt_respawn(t) ==
  /\ thr[t].pc = "panicked"
  /\ thr' = [thr EXCEPT ![t].pc = "idle"]
  /\ UNCHANGED <<INSTANCE_EXISTS, engines, sessions, pending, snaps, states,
                 fs, saved, buf, last>>

(***************************************************************************)
(* Specifications                                                          *)
(***************************************************************************)
NoBuf == with_capacity(0)

Init ==
  /\ INSTANCE_EXISTS = FALSE
  /\ engines = <<>>
  /\ sessions = {}
  /\ pending = <<>>
  /\ snaps = <<>>
  /\ states = {}
  /\ fs \in [Paths -> Roms \cup {Absent}]
  /\ saved = <<>>
  /\ buf = NoBuf
  /\ thr = [t \in 1..NThreads |-> [pc |-> "idle", p |-> 0, todo |-> <<>>]]
  /\ last = Last("init", "ok", "none", 0)

\* Spec: the life cycle of the one engine session, on one thread
Next ==
  \/ new
  \/ \E s \in sessions : \E f \in Paths \cup {NulPath} : load_rom(s, f)
  \/ \E s \in sessions : \E f \in Paths \cup {NulPath} : change_game(s, f)
  \/ \E s \in sessions : into(s)
  \/ \E s \in sessions : drop(s)
  \/ drop_step
  \/ \E g \in sessions : encode(g)
  \/ \E fail \in 0..3 : decode(fail)

Spec == Init /\ [][Next]_vars

\* the ROM files every other specification starts from
BothRoms == [f \in Paths |-> IF f = "pong.bin" THEN "romA" ELSE "romB"]

InitFiles == Init /\ fs = BothRoms

\* SpecMT: threads that each call ALE::new and later drop what they got
NextMT ==
  \/ \E t \in DOMAIN thr : mt_swap(t)
  \/ \E t \in DOMAIN thr : mt_ALE_new(t)
  \/ \E t \in DOMAIN thr : mt_drop(t)
  \/ \E t \in DOMAIN thr : \E i \in 1..2 : mt_drop_step(t, i)
  \/ \E t \in DOMAIN thr : mt_respawn(t)

SpecMT == InitFiles /\ [][NextMT]_vars

\* SpecOwn: who owns the native snapshot handles
NextOwn ==
  \/ new
  \/ \E s \in sessions : \E f \in Paths : load_rom(s, f)
  \/ \E s \in sessions : drop(s)
  \/ drop_step
  \/ \E g \in sessions : clone_state(g)
  \/ \E g \in sessions : clone_system_state(g)
  \/ \E g \in sessions : \E st \in states : restore_from_cloned_state(g, st)
  \/ \E g \in sessions : \E st \in states : restore_from_cloned_system_state(g, st)
  \/ \E st \in states : drop_state(st)
  \/ \E st \in states : encode_snapshot(st)
  \/ \E k \in {"AleState", "AleSystemState"} : \E e \in BOOLEAN : decode_snapshot(k, e)
  \/ \E g \in sessions : encode(g)
  \/ \E fail \in 0..3 : decode(fail)

SpecOwn == InitFiles /\ [][NextOwn]_vars

\* SpecEmu: one Game is stepped, reset, snapshotted and restored (what
\* becomes of snapshots when sessions come and go is SpecOwn's matter)
NextEmu ==
  \/ new
  \/ \E s \in sessions : \E f \in Paths : load_rom(s, f)
  \/ \E g \in sessions : \E a \in Actions : act(g, a)
  \/ \E g \in sessions : reset(g)
  \/ \E g \in sessions : clone_state(g)
  \/ \E g \in sessions : clone_system_state(g)
  \/ \E g \in sessions : \E st \in states : restore_from_cloned_state(g, st)
  \/ \E g \in sessions : \E st \in states : restore_from_cloned_system_state(g, st)
  \/ \E st \in states : drop_state(st)

SpecEmu == InitFiles /\ [][NextEmu]_vars

\* SpecPersist: a Game written to bytes and read back, with the ROM files
\* removed and replaced in between
NextPersist ==
  \/ new
  \/ \E s \in sessions : \E f \in Paths : load_rom(s, f)
  \/ \E s \in sessions : drop(s)
  \/ drop_step
  \/ \E g \in sessions : \E a \in Actions : act(g, a)
  \/ \E g \in sessions : reset(g)
  \/ \E g \in sessions : encode(g)
  \/ \E fail \in 0..3 : decode(fail)
  \/ \E f \in Paths : remove_file(f)
  \/ \E f \in Paths : \E r \in Roms : write_file(f, r)

SpecPersist == InitFiles /\ [][NextPersist]_vars

\* SpecBuf: a loaded Game filling buffers the caller supplies
InitBuf ==
  /\ INSTANCE_EXISTS = TRUE
  /\ \E f \in Paths :
       /\ engines = loadROM(ALE_new(<<>>), 1, f, BothRoms)
       /\ sessions = {Game_new(AleValue(1), f)}
  /\ pending = <<>>
  /\ snaps = <<>>
  /\ states = {}
  /\ fs = BothRoms
  /\ saved = <<>>
  /\ buf = NoBuf
  /\ thr = [t \in 1..NThreads |-> [pc |-> "idle", p |-> 0, todo |-> <<>>]]
  /\ last = Last("load_rom", "ok", "none", 0)

NextBuf ==
  \/ \E cap \in 0..MaxCap : \E len \in 0..cap : caller_buf(len, cap)
  \/ \E g \in sessions : screen_in_buf(g)
  \/ \E g \in sessions : screen_rgb_in_buf(g)
  \/ \E g \in sessions : ram_in_buf(g)
  \/ \E g \in sessions : screen(g)
  \/ \E g \in sessions : screen_rgb(g)
  \/ \E g \in sessions : ram(g)
  \/ \E g \in sessions : legal_action_set(g)
  \/ \E g \in sessions : minimal_action_set(g)
  \/ \E g \in sessions : \E a \in Actions : act(g, a)
  \/ \E g \in sessions : reset(g)

SpecBuf == InitBuf /\ [][NextBuf]_vars

(***************************************************************************)
(* The claims                                                              *)
(***************************************************************************)
FillOps == {"screen_in_buf", "screen_rgb_in_buf", "ram_in_buf"}

\* C1 (Spec): on one thread, whatever the sequence of ALE::new, load_rom,
\* change_game, Into<ALE>, Game decode and drops, at most one native engine
\* handle is live and at most one ALE / Game exists, and every ALE::new (also
\* the one inside Game decode) called while one is live panics.
C1_AtMostOneSession ==
  /\ Cardinality(LiveHandles) <= 1
  /\ Cardinality(sessions) <= 1
  /\ (last.attempt = "busy" => last.res = "panic")

\* C1's case: a Game is live and a Game decode reached ALE::new, which panicked
C1_Witness ==
  /\ last.op = "decode" /\ last.attempt = "busy" /\ last.res = "panic"
  /\ \E g \in Games : engines[g.p].status = "live"

\* C2 (Spec): while a session is destroyed the handle is released first and
\* the guard cleared afterwards: the guard is never clear while a handle is
\* unreleased, and in the middle of a Drop the handle is already released and
\* the guard still set.
C2_ReleaseBeforeClear ==
  /\ (~INSTANCE_EXISTS => LiveHandles = {})
  /\ \A i \in DOMAIN pending :
       /\ pending[i][1] = "store"
       /\ engines[pending[i][2]].status = "deleted"
       /\ INSTANCE_EXISTS

\* C2's case: a Drop for ALE is between its two statements
C2_Witness ==
  /\ last.op = "drop" /\ pending # <<>>
  /\ INSTANCE_EXISTS /\ LiveHandles = {}

\* C3 (SpecMT): with several threads calling ALE::new and dropping what they
\* got, two native handles are never live together, and no thread is inside a
\* successful ALE::new while a handle is live.
C3_LifetimesNeverOverlap ==
  /\ Cardinality(LiveHandles) <= 1
  /\ (Racing # {} => LiveHandles = {})

\* C4 (Spec): once the live session (an ALE, or a Game, also after
\* change_game) has been destroyed the guard is clear, and an ALE::new called
\* with nothing live succeeds, cycle after cycle.
C4_DropClearsGuard ==
  /\ (sessions = {} /\ pending = <<>> => ~INSTANCE_EXISTS)
  /\ (last.attempt = "free" => last.res # "panic")

\* C4's case: a Game that went through change_game has been dropped in a
\* second or later cycle, and the guard is clear again
C4_Witness ==
  /\ last.op = "drop" /\ last.res = "Game" /\ last.info = 2
  /\ pending = <<>> /\ sessions = {}
  /\ Len(engines) >= 2
  /\ ~INSTANCE_EXISTS

\* C5 (Spec): a completed load_rom, change_game or Into<ALE> hands the same
\* native handle to the value it returns: no handle is created or released,
\* the guard keeps its value and no Drop starts.
C5_TransitionsKeepHandle ==
  [][\A s \in sessions :
       (\/ \E f \in Paths : load_rom(s, f)
        \/ \E f \in Paths : change_game(s, f)
        \/ into(s))
       => /\ INSTANCE_EXISTS' = INSTANCE_EXISTS
          /\ Len(engines') = Len(engines)
          /\ \A h \in DOMAIN engines : engines'[h].status = engines[h].status
          /\ pending' = <<>>
          /\ \E n \in sessions' :
               /\ n.p = s.p
               /\ sessions' = (sessions \ {s}) \cup {n}]_vars

\* C5's case: a change_game has completed
C5_Witness ==
  /\ last.op = "change_game" /\ last.res = "ok"
  /\ \E g \in Games : engines[g.p].status = "live" /\ engines[g.p].loads = 2

\* C6 (SpecOwn): every native snapshot handle (from clone_state,
\* clone_system_state, a snapshot decode, or the temporary of Game encode and
\* decode) is either live, never freed and held by exactly one AleState /
\* AleSystemState, or freed exactly once and held by none.
C6_SnapshotsFreedOnce ==
  \A h \in DOMAIN snaps :
    LET owners == {w \in states : w.s = h}
    IN  \/ /\ snaps[h].status = "live"
           /\ snaps[h].frees = 0
           /\ Cardinality(owners) = 1
        \/ /\ snaps[h].status = "freed"
           /\ snaps[h].frees = 1
           /\ owners = {}

\* C6's case: one snapshot has been dropped and another, still held, has just
\* been restored from
C6_Witness ==
  /\ last.op = "restore_from_cloned_state"
  /\ \E h \in DOMAIN snaps : snaps[h].status = "freed"
  /\ \E w \in states : snaps[w.s].status = "live"

\* C7 (SpecBuf): after screen_in_buf, screen_rgb_in_buf or ram_in_buf on any
\* caller supplied buffer, the capacity is at least the size the engine fills
\* and the length is exactly that size.
C7_BufferHoldsFill ==
  last.op \in FillOps => (buf.cap >= last.info /\ buf.len = last.info)

\* C8 (SpecPersist): a Game decoded from the bytes of an encoded Game, the ROM
\* file being at encode time the one the Game was running and at decode time
\* either absent or unchanged, shows the RAM, screen, frame number and lives
\* the original showed when it was encoded.
C8_RoundTrip ==
  (/\ last.op = "decode" /\ last.res = "ok"
   /\ last.info \in {"created", "same"}
   /\ saved[1].rom = saved[1].loaded)
  => \E g \in Games : g.p = Len(engines) /\ Obs(g) = saved[1].obs

\* C8's case: a Game encoded after a step has been decoded with its ROM file
\* missing
C8_Witness ==
  /\ last.op = "decode" /\ last.res = "ok" /\ last.info = "created"
  /\ saved[1].rom = saved[1].loaded
  /\ saved[1].obs.frame > 0

\* C9 (SpecEmu): restore_from_cloned_state of the snapshot clone_state has
\* just returned leaves frame number, lives, RAM and screen as they are.
C9_CloneRestoreIdentity ==
  [][\A g \in sessions : \A st \in states :
       (/\ Freshness(g, st, "clone_state") = "fresh"
        /\ restore_from_cloned_state(g, st))
       => Obs(g)' = Obs(g)]_vars

\* C9's case: after at least one step, a snapshot was cloned and restored at
\* once
C9_Witness ==
  /\ last.op = "restore_from_cloned_state" /\ last.res = "fresh"
  /\ \E g \in Games : frame_number(g) > 0

\* C10 (SpecEmu): restore_from_cloned_system_state of a snapshot cloned from
\* the Game, with only act() calls (and restores of that snapshot) since,
\* brings frame_number() back to its value when the snapshot was cloned.
C10_RestoreRewindsFrames ==
  [][\A g \in sessions : \A st \in states :
       (/\ st.acts_only
        /\ restore_from_cloned_system_state(g, st))
       => frame_number(g)' = st.frame0]_vars

\* C10's case: the restore came after MaxFrame act() calls and rolled them back
C10_Witness ==
  /\ last.op = "restore_from_cloned_system_state"
  /\ last.info = MaxFrame
  /\ \E g \in Games : frame_number(g) = 0

\* C11 (SpecEmu): restore_from_cloned_state and
\* restore_from_cloned_system_state leave the snapshot live, unchanged and
\* held by the same value; no operation changes a snapshot that stays held; and
\* every restore, the first or a later one after act() and reset() calls,
\* puts the Game (running the cartridge the snapshot was taken on) into the
\* state the snapshot captured.
C11_RestoreKeepsSnapshot ==
  [][/\ \A w \in states : \A v \in states' :
          (v.s = w.s /\ snaps[w.s].status = "live") => snaps'[w.s] = snaps[w.s]
     /\ \A g \in sessions : \A st \in states :
          (\/ restore_from_cloned_state(g, st)
           \/ restore_from_cloned_system_state(g, st))
          => /\ snaps' = snaps
             /\ snaps[st.s].status = "live"
             /\ \E w \in states' : w.s = st.s /\ w.kind = st.kind
             /\ (snaps[st.s].emu.rom = engines[g.p].emu.rom
                 => engines'[g.p].emu = snaps[st.s].emu)]_vars

\* C11's case: a snapshot taken after a step was restored, the Game was reset,
\* and the snapshot was restored a second time
C11_Witness ==
  /\ last.op = "restore_from_cloned_state" /\ last.attempt = "again"
  /\ last.info = -1
  /\ \E st \in states :
       /\ states = {st}
       /\ st.uses = 1 /\ st.frame0 > 0
       /\ snaps[st.s].status = "live"
       /\ \E g \in Games : engines[g.p].emu = snaps[st.s].emu

\* C12 (SpecPersist): a Game decode that returns a Game leaves a file at the
\* decoded path: one it created with the embedded ROM bytes when there was
\* none, else the file that was there, byte for byte; no other file changes.
C12_DecodeLeavesRomFile ==
  [][(decode(0) /\ last'.res = "ok")
     => LET path == saved[1].rom_path
        IN  /\ fs'[path] # Absent
            /\ (fs[path] = Absent => fs'[path] = saved[1].rom)
            /\ (fs[path] # Absent => fs'[path] = fs[path])
            /\ \A f \in Paths \ {path} : fs'[f] = fs[f]]_vars

\* C12's case: the ROM file had been removed and the decode has written it
\* back with the embedded bytes
C12_Witness ==
  /\ last.op = "decode" /\ last.res = "ok" /\ last.info = "created"
  /\ fs[saved[1].rom_path] = saved[1].rom
  /\ \E g \in Games : g.rom_path = saved[1].rom_path

\* C13 (SpecPersist): when the structured decoder fails on the ROM path, the
\* ROM bytes or the system state of a persisted Game, the decode does not
\* return a Game: it returns the error (or ALE::new has panicked before the
\* failing field was read), and no Game is added.
C13_DecodeErrorsPropagate ==
  [][\A fail \in 1..3 :
       decode(fail)
       => /\ last'.res \in {"err", "panic"}
          /\ (last'.res = "panic" => fail = 3 /\ last'.attempt = "busy")
          /\ Games' = Games]_vars

\* C13's case: the decoder failed on the third field, after the engine
\* session of the decode had been built
C13_Witness ==
  /\ last.op = "decode" /\ last.res = "err" /\ last.attempt = "free"
  /\ Games = {}
  /\ Len(engines) >= 1

\* C14 (SpecBuf): in every state of a Game, the Vec screen() returns has
\* exactly width * height elements, (width, height) being screen_dimensions(),
\* and the Vec ram() returns has exactly ram_size() elements; both lie within
\* the capacity allocated for them.
C14_ScreenAndRamLengths ==
  \A g \in Games :
    /\ last.op = "screen"
       => /\ buf.len = screen_dimensions(g)[1] * screen_dimensions(g)[2]
          /\ buf.len = Len(getScreen(engines[g.p].emu))
          /\ buf.cap >= buf.len
    /\ last.op = "ram"
       => /\ buf.len = ram_size(g)
          /\ buf.len = Len(getRAM(engines[g.p].emu))
          /\ buf.cap >= buf.len

\* C14's case: ram() was called on a Game that has been stepped
C14_Witness ==
  /\ last.op = "ram"
  /\ \E g \in Games : frame_number(g) > 0 /\ buf.len = ram_size(g)
  /\ buf.len > 0

\* C15 (SpecBuf): legal_action_set() and minimal_action_set() return as many
\* actions as the engine's size query reports, they are the engine's actions
\* in the engine's order, and the buffer the engine wrote into had room for
\* that many.
C15_ActionSetLengths ==
  \A g \in Games :
    LET e == engines[g.p].emu
    IN  /\ last.op = "legal_action_set"
           => /\ Len(last.info) = getLegalActionSize(e)
              /\ last.info = getLegalActionSet(e)
              /\ buf.cap >= getLegalActionSize(e)
              /\ buf.len = getLegalActionSize(e)
        /\ last.op = "minimal_action_set"
           => /\ Len(last.info) = getMinimalActionSize(e)
              /\ last.info = getMinimalActionSet(e)
              /\ buf.cap >= getMinimalActionSize(e)
              /\ buf.len = getMinimalActionSize(e)

\* C15's case: minimal_action_set() returned more than one action
C15_Witness ==
  /\ last.op = "minimal_action_set"
  /\ Len(last.info) > 1
  /\ \E g \in Games : last.info = getMinimalActionSet(engines[g.p].emu)

\* C16 (SpecEmu): each act(action) is exactly one native step with the
\* wrapped integer, whether or not the game is over: the emulator state is
\* the one the step produces, the value returned is that step's reward, and
\* frame_number() has grown by one; a Game that load_rom has just returned
\* is at frame 0, so n calls of act leave it at frame n.
C16_ActIsOneStep ==
  [][/\ \A g \in sessions : \A a \in Actions :
          act(g, a)
          => /\ engines'[g.p].emu = NativeAct(engines[g.p].emu, a)
             /\ last'.info = Reward(engines[g.p].emu, a)
             /\ frame_number(g)' = frame_number(g) + 1
             /\ \A h \in DOMAIN engines : h # g.p => engines'[h] = engines[h]
     /\ \A s \in sessions : \A f \in Paths :
          load_rom(s, f) => engines'[s.p].emu.frame = 0]_vars

\* C16's case: act was called on a Game that was over, and the Game is now
\* at the last frame explored
C16_Witness ==
  /\ last.op = "act" /\ last.res = "over"
  /\ \E g \in Games : frame_number(g) = MaxFrame /\ is_over(g)

\* C17 (Spec): every Game owns a live handle on which loadROM has been
\* called, and its rom_path is the path given to the latest loadROM on that
\* handle, whether the Game came from load_rom, change_game or a decode.
C17_GameHasRomLoaded ==
  \A g \in Games :
    /\ engines[g.p].status = "live"
    /\ engines[g.p].loads >= 1
    /\ engines[g.p].path = g.rom_path

\* C17's case: a Game has just been built by a decode, from the path in the
\* encoded bytes
C17_Witness ==
  /\ last.op = "decode" /\ last.res = "ok"
  /\ \E g \in Games :
       /\ g.rom_path = saved[1].rom_path
       /\ engines[g.p].path = saved[1].rom_path
       /\ engines[g.p].loads = 1

\* C18 (Spec): once a Game decode has returned a decode error, every live
\* native handle belongs to a session that exists (the handle the decode
\* created is released), and when the Drop it started has finished the guard
\* is set exactly if a session exists: clear, with no session live, so that
\* ALE::new succeeds.
C18_DecodeErrorLeavesNothing ==
  (last.op = "decode" /\ last.res = "err")
  => /\ LiveHandles \subseteq {s.p : s \in sessions}
     /\ (Idle => (INSTANCE_EXISTS <=> sessions # {}))

\* C18's case: the decode failed on the system state, after it had built its
\* engine session, with no other session live; the session's Drop has finished
C18_Witness ==
  /\ last.op = "decode" /\ last.res = "err" /\ last.attempt = "free"
  /\ Idle /\ sessions = {}
  /\ engines # <<>> /\ engines[Len(engines)].status = "deleted"
  /\ ~INSTANCE_EXISTS

\* C19 (Spec): an ALE::new (also the one inside Game decode) that panics
\* because a session is live leaves the native handles, the sessions and the
\* set guard as they are and starts no Drop; while a session exists the guard
\* is set, so that every ALE::new keeps panicking until the session is dropped.
C19_RejectedNewChangesNothing ==
  [][/\ (\/ new /\ last'.res = "panic"
         \/ \E fail \in 0..3 : decode(fail) /\ last'.res = "panic")
        => /\ INSTANCE_EXISTS /\ INSTANCE_EXISTS'
           /\ engines' = engines
           /\ sessions' = sessions
           /\ pending' = <<>>
           /\ \E s \in sessions : sessions = {s} /\ LiveHandles' = {s.p}
     /\ (sessions # {} => INSTANCE_EXISTS)
     /\ (new /\ sessions # {} => last'.res = "panic")]_vars

\* C19's case: ALE::new has panicked while a Game was live, and the Game is
\* still the one owner of the one live handle
C19_Witness ==
  /\ last.op = "new" /\ last.res = "panic"
  /\ INSTANCE_EXISTS /\ pending = <<>>
  /\ \E s \in sessions : s.kind = "Game" /\ sessions = {s} /\ LiveHandles = {s.p}

====
